---------------------------- MODULE Spec2Model ----------------------------
(***************************************************************************)
(* Model of the decision core of the snake game: the grid/neighbour model  *)
(* (utils.py), the heuristics (heuristics.py), the two search algorithms   *)
(* and the movement simulator (search.py), the flood fill and the tiered   *)
(* decision policy (agent.py), the agents of agent_bfs.py and              *)
(* agent_alphabeta.py, the game engine they read (game.py) and the tick of *)
(* the controller (main.py).                                               *)
(*                                                                         *)
(* A cell (x, y) of the program is the tuple <<x, y>>; a Python list is a  *)
(* sequence, a Python set a set.                                           *)
(***************************************************************************)
EXTENDS Integers, Sequences, FiniteSets, TLC

VARIABLES
    \* the grid
    grid_rows,        \* game.grid_rows / the grid_rows argument of a search
    grid_cols,        \* game.grid_cols / the grid_cols argument of a search
    \* direct calls of the library functions, their arguments and results
    start,            \* the start argument of a search or of the flood fill
    goal,             \* the goal argument of a search
    obstacles,        \* the obstacles argument of a search or of the flood fill
    heuristic_name,   \* the heuristic_name argument of astar_search
    snake_body,       \* the snake_body argument of simulate_snake_movement
    sim_path,         \* the path argument of simulate_snake_movement
    called,           \* the calls made so far
    bfs_result,       \* the SearchResult returned by bfs_search
    astar_result,     \* the SearchResult returned by astar_search
    count_result,     \* the value returned by _count_reachable_spaces
    sim_result,       \* the value returned by simulate_snake_movement
    \* SnakeGame
    snake, direction, next_direction, food, score, game_over, moves, survival_mode,
    \* the configuration values the game and the agent read
    dynamic_replanning, survival_mode_threshold,
    \* SnakeAIAgent
    algorithm, heuristic, current_path, search_result, last_path_length,
    log,              \* the messages the last get_next_move gave to the logger
    \* the controller's agent (main.py _create_agent)
    agent_kind,       \* the class of self.agent, "none" for None (human mode)
    alphabeta_depth,  \* AlphaBetaAgent.max_depth (config 'ai' 'alphabeta_depth')
    nodes_evaluated,  \* AlphaBetaAgent.nodes_evaluated
    \* the controller's tick (main.py _update_game)
    pc,               \* the step of the tick that comes next
    move,             \* the direction the last get_next_move returned (in human
                      \* mode, the one last given to change_direction)
    update_result     \* what the last update returned, "none" before the first

gridVars == <<grid_rows, grid_cols>>
callVars == <<start, goal, obstacles, heuristic_name, snake_body, sim_path,
              called, bfs_result, astar_result, count_result, sim_result>>
gameVars == <<snake, direction, next_direction, food, score, game_over, moves,
              survival_mode>>
configVars == <<dynamic_replanning, survival_mode_threshold>>
agentVars == <<algorithm, heuristic, current_path, search_result, last_path_length, log,
               agent_kind, alphabeta_depth, nodes_evaluated>>
tickVars == <<pc, move, update_result>>

vars == <<gridVars, callVars, gameVars, configVars, agentVars, tickVars>>

---------------------------------------------------------------------------
(* Bounds of the model *)

\* largest number of rows and of columns of a grid with obstacles
MaxRows == 2
MaxCols == 3
\* largest number of obstacle cells drawn on a grid
MaxObstacles == 2
\* largest number of rows and of columns of a grid without obstacles
MaxOpenRows == 6
MaxOpenCols == 7
\* side of the grid, longest body and longest path given to
\* simulate_snake_movement
MaxDim == 3
MaxBody == 3
MaxPathLen == 4
\* number of rows of the grid of the game
GameRows == 3
\* number of successful updates after which a game is no longer followed
MaxMoves == 5
\* largest configured survival_mode_threshold
MaxThreshold == 2
\* largest max_depth an AlphaBetaAgent is made with
MaxDepth == 2
\* number of rows of the grid and longest body of a game met in mid-play
MidRows == 4
MaxSnake == 5
\* longest body a simulated path is replayed on
MaxReplayBody == 4
\* longest body _find_safe_move is called on
MaxCoil == 7
\* largest number of rows and of columns of a grid _spawn_food is called on
MaxSpawnRows == 2
MaxSpawnCols == 3

---------------------------------------------------------------------------
(* utils.py *)

Abs(n) == IF n < 0 THEN -n ELSE n

manhattan_distance(pos1, pos2) == Abs(pos1[1] - pos2[1]) + Abs(pos1[2] - pos2[2])

\* ((dx)^2 + (dy)^2) ** 0.5 is kept as its radicand: the square root of an
\* integer is compared exactly by FLess below.
euclidean_distance_sq(pos1, pos2) ==
    (pos1[1] - pos2[1]) * (pos1[1] - pos2[1]) + (pos1[2] - pos2[2]) * (pos1[2] - pos2[2])

\* a bounds test that lets a cell sit one past the last column or row
is_valid_position_closed(pos, rows, cols) ==
    /\ 0 <= pos[1] /\ pos[1] <= cols
    /\ 0 <= pos[2] /\ pos[2] <= rows

is_valid_position(pos, rows, cols) ==
    /\ 0 <= pos[1] /\ pos[1] < cols
    /\ 0 <= pos[2] /\ pos[2] < rows

\* up, down, left, right
directions == << <<0, -1>>, <<0, 1>>, <<-1, 0>>, <<1, 0>> >>

\* neighbours without the one to the left
get_neighbors_no_left(pos, rows, cols) ==
    LET new_pos(i) == <<pos[1] + directions[i][1], pos[2] + directions[i][2]>>
        all == [i \in {1, 2, 3} |-> new_pos(IF i = 3 THEN 4 ELSE i)]
    IN  SelectSeq(all, LAMBDA p : is_valid_position(p, rows, cols))

get_neighbors(pos, rows, cols) ==
    LET new_pos(i) == <<pos[1] + directions[i][1], pos[2] + directions[i][2]>>
        all == [i \in 1..Len(directions) |-> new_pos(i)]
    IN  SelectSeq(all, LAMBDA p : is_valid_position(p, rows, cols))

\* the cells of a grid: 0 <= x < cols, 0 <= y < rows
Cells(rows, cols) == (0..(cols - 1)) \X (0..(rows - 1))

---------------------------------------------------------------------------
(* heuristics.py *)

HeuristicNames == {"manhattan", "euclidean"}

\* get_heuristic: a name that is not 'euclidean' selects the Manhattan
\* heuristic (the default of heuristics.get).
get_heuristic(name) == IF name = "euclidean" THEN "euclidean" ELSE "manhattan"

\* a heuristic with the sign reversed: the farther from the target, the
\* better a cell looks
heuristic_value_reversed(h, pos, target) ==
    [n |-> 0 - manhattan_distance(pos, target), r |-> 0]

\* A heuristic value or an f score is the number  n + sqrt(r)  kept as the
\* record [n, r]: Manhattan values have r = 0, Euclidean values n = 0.
heuristic_value(h, pos, target) ==
    IF h = "euclidean"
    THEN [n |-> 0, r |-> euclidean_distance_sq(pos, target)]
    ELSE [n |-> manhattan_distance(pos, target), r |-> 0]

\* a.n + sqrt(a.r) < b.n + sqrt(b.r), in exact arithmetic
FLess(a, b) ==
    LET k == b.n - a.n
    IN  IF k >= 0
        THEN LET m == a.r - b.r - k * k
             IN  m < 0 \/ m * m < 4 * k * k * b.r
        ELSE LET m == b.r - a.r - k * k
             IN  m > 0 /\ 4 * k * k * a.r < m * m

---------------------------------------------------------------------------
(* search.py: SearchResult *)

SearchResult(path, visited, frontier, nodes_expanded, path_cost, found) ==
    [path |-> path, visited |-> visited, frontier |-> frontier,
     nodes_expanded |-> nodes_expanded, path_cost |-> path_cost, found |-> found]

\* the value of a result variable before the call
NoResult == SearchResult(<<>>, {}, {}, 0, 0, FALSE)

---------------------------------------------------------------------------
(* search.py: bfs_search *)

\* a loop that enqueues a neighbour again whenever the path of the dequeued
\* cell has not been through it, visited or not
RECURSIVE bfs_expand_revisiting(_, _, _, _, _, _, _)
bfs_expand_revisiting(neighbors, i, path, obs, queue, visited, frontier) ==
    IF i > Len(neighbors)
    THEN [queue |-> queue, visited |-> visited, frontier |-> frontier]
    ELSE LET neighbor == neighbors[i]
         IN  IF (\A k \in 1..Len(path) : path[k] # neighbor) /\ neighbor \notin obs
             THEN bfs_expand_revisiting(neighbors, i + 1, path, obs,
                             Append(queue, [pos |-> neighbor, path |-> Append(path, neighbor)]),
                             visited \cup {neighbor},
                             frontier \cup {neighbor})
             ELSE bfs_expand_revisiting(neighbors, i + 1, path, obs, queue, visited, frontier)

\* the for loop over the neighbours of the dequeued cell (lines 60-65)
RECURSIVE bfs_expand(_, _, _, _, _, _, _)
bfs_expand(neighbors, i, path, obs, queue, visited, frontier) ==
    IF i > Len(neighbors)
    THEN [queue |-> queue, visited |-> visited, frontier |-> frontier]
    ELSE LET neighbor == neighbors[i]
         IN  IF neighbor \notin visited /\ neighbor \notin obs
             THEN bfs_expand(neighbors, i + 1, path, obs,
                             Append(queue, [pos |-> neighbor, path |-> Append(path, neighbor)]),
                             visited \cup {neighbor},
                             frontier \cup {neighbor})
             ELSE bfs_expand(neighbors, i + 1, path, obs, queue, visited, frontier)

\* the path_cost bfs_search reports for a found path (line 55)
bfs_path_cost(path) == Len(path)

\* the while loop (lines 44-68) and the return after it (lines 71-76)
RECURSIVE bfs_loop(_, _, _, _, _, _, _, _)
bfs_loop(queue, visited, frontier, nodes_expanded, target, obs, rows, cols) ==
    IF queue = <<>>
    THEN SearchResult(<<>>, visited, frontier, nodes_expanded, 0, FALSE)
    ELSE LET current == Head(queue).pos
             path == Head(queue).path
             n == nodes_expanded + 1
         IN  IF current = target
             THEN SearchResult(path, visited, frontier, n, bfs_path_cost(path), TRUE)
             ELSE LET e == bfs_expand(get_neighbors(current, rows, cols), 1, path, obs,
                                      Tail(queue), visited, frontier)
                  IN  bfs_loop(e.queue, e.visited, e.frontier \ {current}, n,
                               target, obs, rows, cols)

bfs_search(from, target, obs, rows, cols) ==
    bfs_loop(<< [pos |-> from, path |-> <<from>>] >>, {from}, {}, 0, target, obs, rows, cols)

---------------------------------------------------------------------------
(* search.py: astar_search *)

\* Tuple order of two heap entries (f_score, counter, ...): f first, then
\* the counter, which is unique, so no later component is ever compared.
HeapLess(a, b) == FLess(a.f, b.f) \/ (~FLess(b.f, a.f) /\ a.counter < b.counter)

\* a pop that takes the greatest entry of the heap
heappop_greatest(heap) == CHOOSE e \in heap : \A o \in heap \ {e} : HeapLess(o, e)

\* heapq.heappop: the least entry of the heap
heappop(heap) == CHOOSE e \in heap : \A o \in heap \ {e} : HeapLess(e, o)

\* the for loop over the neighbours of the popped cell (lines 130-146)
RECURSIVE astar_expand(_, _, _, _, _, _, _, _, _, _, _, _)
astar_expand(neighbors, i, path, g_score, target, obs, h, visited, heap, frontier, g_scores, counter) ==
    IF i > Len(neighbors)
    THEN [heap |-> heap, frontier |-> frontier, g_scores |-> g_scores, counter |-> counter]
    ELSE LET neighbor == neighbors[i]
             new_g_score == g_score + 1
         IN  IF neighbor \in visited \/ neighbor \in obs
             THEN astar_expand(neighbors, i + 1, path, g_score, target, obs, h, visited,
                               heap, frontier, g_scores, counter)
             ELSE IF neighbor \notin DOMAIN g_scores \/ new_g_score < g_scores[neighbor]
             THEN LET h_score == heuristic_value(h, neighbor, target)
                      new_f_score == [n |-> new_g_score + h_score.n, r |-> h_score.r]
                      entry == [f |-> new_f_score, counter |-> counter + 1, pos |-> neighbor,
                                path |-> Append(path, neighbor), g |-> new_g_score]
                  IN  astar_expand(neighbors, i + 1, path, g_score, target, obs, h, visited,
                                   heap \cup {entry}, frontier \cup {neighbor},
                                   (neighbor :> new_g_score) @@ g_scores, counter + 1)
             ELSE astar_expand(neighbors, i + 1, path, g_score, target, obs, h, visited,
                               heap, frontier, g_scores, counter)

\* the while loop (lines 107-146) and the return after it (lines 149-154)
RECURSIVE astar_loop(_, _, _, _, _, _, _, _, _, _, _)
astar_loop(heap, visited, frontier, nodes_expanded, g_scores, counter, target, obs, rows, cols, h) ==
    IF heap = {}
    THEN SearchResult(<<>>, visited, frontier, nodes_expanded, 0, FALSE)
    ELSE LET top == heappop(heap)
             rest == heap \ {top}
             current == top.pos
         IN  IF current \in visited
             THEN astar_loop(rest, visited, frontier, nodes_expanded, g_scores, counter,
                             target, obs, rows, cols, h)
             ELSE LET visited2 == visited \cup {current}
                      n == nodes_expanded + 1
                      frontier2 == frontier \ {current}
                  IN  IF current = target
                      THEN SearchResult(top.path, visited2, frontier2, n, top.g, TRUE)
                      ELSE LET e == astar_expand(get_neighbors(current, rows, cols), 1,
                                                 top.path, top.g, target, obs, h, visited2,
                                                 rest, frontier2, g_scores, counter)
                           IN  astar_loop(e.heap, visited2, e.frontier, n, e.g_scores,
                                          e.counter, target, obs, rows, cols, h)

astar_search(from, target, obs, rows, cols, name) ==
    LET h == get_heuristic(name)
        h0 == heuristic_value(h, from, target)
    IN  astar_loop({[f |-> h0, counter |-> 0, pos |-> from, path |-> <<from>>, g |-> 0]},
                   {}, {from}, 0, (from :> 0), 0, target, obs, rows, cols, h)

---------------------------------------------------------------------------
(* search.py: simulate_snake_movement *)

\* the Python slice s[1:]
Rest(s) == IF s = <<>> THEN <<>> ELSE Tail(s)

\* a slice that drops the last two elements
Front_dropping_two(s) == IF Len(s) < 2 THEN <<>> ELSE SubSeq(s, 1, Len(s) - 2)

\* the Python slice s[:-1]
Front(s) == IF s = <<>> THEN <<>> ELSE SubSeq(s, 1, Len(s) - 1)

\* the set of the elements of a list
Range(s) == {s[i] : i \in 1..Len(s)}

\* a self-collision test that counts the new head as part of the body
self_collision_with_head(next_pos, sim_snake) == next_pos \in Range(sim_snake)

\* the self-collision test of a simulated move (line 177)
self_collision(next_pos, sim_snake) == next_pos \in Range(Rest(sim_snake))

\* the for loop over path[1:] (lines 172-178), from index i of path
RECURSIVE simulate_loop(_, _, _)
simulate_loop(sim_snake, path, i) ==
    IF i > Len(path)
    THEN TRUE
    ELSE LET next_pos == path[i]
             moved == Front(<<next_pos>> \o sim_snake)
         IN  IF self_collision(next_pos, moved)
             THEN FALSE
             ELSE simulate_loop(moved, path, i + 1)

simulate_snake_movement(body, path) == simulate_loop(body, path, 2)

\* a simulation that inserts and pops on the caller's list: the list after
\* the first simulated move
snake_body_moved_in_place(body, path) ==
    IF Len(path) > 1 THEN Front(<<path[2]>> \o body) ELSE body

\* the caller's list after the call: the moves are made on the copy
\* list(snake_body) of line 169, the argument keeps its cells
snake_body_after_simulation(body, path) == body

---------------------------------------------------------------------------
(* agent.py: _count_reachable_spaces *)

\* the for loop over the neighbours of the dequeued cell (lines 164-167)
RECURSIVE count_expand(_, _, _, _, _, _)
count_expand(neighbors, i, depth, obs, queue, visited) ==
    IF i > Len(neighbors)
    THEN [queue |-> queue, visited |-> visited]
    ELSE LET neighbor == neighbors[i]
         IN  IF neighbor \notin visited /\ neighbor \notin obs
             THEN count_expand(neighbors, i + 1, depth, obs,
                               Append(queue, [pos |-> neighbor, depth |-> depth + 1]),
                               visited \cup {neighbor})
             ELSE count_expand(neighbors, i + 1, depth, obs, queue, visited)

\* the while loop (lines 158-167); max_depth = 0 stands for None, which the
\* test "if max_depth and ..." treats like 0
RECURSIVE count_loop(_, _, _, _, _, _)
count_loop(queue, visited, obs, max_depth, rows, cols) ==
    IF queue = <<>>
    THEN Cardinality(visited)
    ELSE LET pos == Head(queue).pos
             depth == Head(queue).depth
         IN  IF max_depth # 0 /\ depth >= max_depth
             THEN count_loop(Tail(queue), visited, obs, max_depth, rows, cols)
             ELSE LET e == count_expand(get_neighbors(pos, rows, cols), 1, depth, obs,
                                        Tail(queue), visited)
                  IN  count_loop(e.queue, e.visited, obs, max_depth, rows, cols)

\* a flood fill that forgets to mark the cell it starts from
count_initial_visited_empty(from) == {}

\* the visited set the flood fill starts from (line 155)
count_initial_visited(from) == {from}

_count_reachable_spaces(from, obs, max_depth, rows, cols) ==
    count_loop(<< [pos |-> from, depth |-> 0] >>, count_initial_visited(from),
               obs, max_depth, rows, cols)

---------------------------------------------------------------------------
(* game.py: SnakeGame *)

\* config 'game' 'initial_snake_length'
initial_snake_length == 3

\* the narrowest grid on which reset lays the whole snake inside the grid:
\* the head is at column cols // 2 and the body extends to the left of it
GameCols == initial_snake_length + 1

\* reset (lines 38-46): the snake starts at the centre and extends left
reset_snake(rows, cols) ==
    [i \in 1..initial_snake_length |-> <<(cols \div 2) - (i - 1), rows \div 2>>]

\* _spawn_food: the cells it can return for the snake s. On a grid that is
\* full or one cell short of full it returns the head; otherwise the random
\* draws and the systematic scan both end on a cell that is not on the snake.
spawn_food_choices(s, rows, cols) ==
    IF Len(s) >= rows * cols - 1
    THEN {s[1]}
    ELSE Cells(rows, cols) \ Range(s)

is_position_safe(pos) ==
    /\ 0 <= pos[1] /\ pos[1] < grid_cols
    /\ 0 <= pos[2] /\ pos[2] < grid_rows
    /\ pos \notin Range(Rest(snake))

get_safe_neighbors(pos) ==
    LET all == [i \in 1..Len(directions) |->
                  <<pos[1] + directions[i][1], pos[2] + directions[i][2]>>]
    IN  SelectSeq(all, is_position_safe)

---------------------------------------------------------------------------
(* agent.py: SnakeAIAgent. An operator that stands for a method takes the   *)
(* agent's fields as the record ag and returns the fields after the call;   *)
(* the game is read from the variables, which no method assigns. A method   *)
(* that uses a value several times hands it to a helper as an argument.     *)

\* game_snake is the list self.game.snake, which the agent hands to
\* simulate_snake_movement
AgentFields ==
    [current_path |-> current_path, search_result |-> search_result,
     last_path_length |-> last_path_length, log |-> <<>>, game_snake |-> snake]

Logged(ag, message) == [ag EXCEPT !.log = Append(@, message)]

\* the cell itself in place of the difference to the head
direction_to_from_origin(next_pos) == next_pos

\* direction from the head to next_pos
direction_to(next_pos) == <<next_pos[1] - snake[1][1], next_pos[2] - snake[1][2]>>

\* the search for the food with the body behind the head as obstacles
\* (lines 96-104 and 201-214)
search_food ==
    IF algorithm = "bfs"
    THEN bfs_search(snake[1], food, Range(Rest(snake)), grid_rows, grid_cols)
    ELSE astar_search(snake[1], food, Range(Rest(snake)), grid_rows, grid_cols, heuristic)

\* _plan_path after the search has returned result (lines 216-233)
plan_with(ag, result) ==
    IF result.found
    THEN IF simulate_snake_movement(snake, result.path)
         THEN [Logged(ag, "found path") EXCEPT
                 !.search_result = result,
                 !.current_path = result.path,
                 !.last_path_length = Len(result.path),
                 !.game_snake = snake_body_after_simulation(snake, result.path)]
         ELSE [Logged(Logged(ag, "found path"), "self-collision") EXCEPT
                 !.search_result = result,
                 !.current_path = <<>>,
                 !.game_snake = snake_body_after_simulation(snake, result.path)]
    ELSE [Logged(ag, "no path") EXCEPT
            !.search_result = result,
            !.current_path = <<>>]

_plan_path(ag) == plan_with(ag, search_food)

\* current_path.pop(0); current_path is the list search_result.path itself
\* (line 226), so the result loses its first cell too
pop_path(ag) ==
    [ag EXCEPT !.current_path = Tail(@),
               !.search_result = [@ EXCEPT !.path = Tail(ag.current_path)]]

\* a second search that is not made: the tail counts as reachable
tail_reachable_unchecked == TRUE

\* the second search of _is_food_reachable_safely (lines 110-120): from the
\* food to the tail of the snake grown at the food
tail_reachable_after_eating ==
    astar_search(food, snake[Len(snake)], Range(Front(snake)),
                 grid_rows, grid_cols, "manhattan").found

_is_food_reachable_safely ==
    IF ~search_food.found THEN FALSE ELSE tail_reachable_after_eating

\* a requirement without the margin of 5
required_space_without_margin == Len(snake)

\* the space a move must leave (line 139)
required_space == Len(snake) + 5

_verify_move_safety(next_pos) ==
    _count_reachable_spaces(next_pos, Range(Rest(<<next_pos>> \o Front(snake))), 0,
                            grid_rows, grid_cols) >= required_space

\* a choice that takes the first cell whatever the keys
first_cell(cells, keys) == cells[1]

\* max(cells, key=...), keys[i] being the key of cells[i]: the first cell
\* whose key no other cell exceeds
first_max(cells, keys) ==
    LET best == CHOOSE i \in 1..Len(cells) :
                   /\ \A j \in 1..Len(cells) : keys[j] <= keys[i]
                   /\ \A j \in 1..(i - 1) : keys[j] < keys[i]
    IN  cells[best]

\* _find_safe_move with the safe neighbours of the head (lines 273-285)
safe_move_among(ag, safe_neighbors) ==
    LET space == [i \in 1..Len(safe_neighbors) |->
                    _count_reachable_spaces(safe_neighbors[i], Range(snake), 0,
                                            grid_rows, grid_cols)]
    IN  IF safe_neighbors # <<>>
        THEN [move |-> direction_to(first_max(safe_neighbors, space)),
              ag |-> Logged(ag, "safe move")]
        ELSE [move |-> direction, ag |-> Logged(ag, "no safe moves")]

_find_safe_move(ag) == safe_move_among(ag, get_safe_neighbors(snake[1]))

\* a search for the tail that leaves the cell behind the head out of the
\* obstacles
search_tail_past_neck ==
    astar_search(snake[1], snake[Len(snake)], Range(Front(Rest(Rest(snake)))),
                 grid_rows, grid_cols, "manhattan")

\* the path to the tail with the body between head and tail as obstacles
\* (lines 179-186 and 242-252)
search_tail ==
    astar_search(snake[1], snake[Len(snake)], Range(Front(Rest(snake))),
                 grid_rows, grid_cols, "manhattan")

\* the rest of a tail chase once the search has returned result
\* (lines 188-195 and 254-261)
chase_with(ag, result, message) ==
    IF result.found /\ Len(result.path) > 1
    THEN [move |-> direction_to(result.path[2]), ag |-> Logged(ag, message)]
    ELSE _find_safe_move(ag)

_hamiltonian_fallback(ag) == chase_with(ag, search_tail, "hamiltonian")

_tail_chase_fallback(ag) == chase_with(ag, search_tail, "tail-chase")

\* the move along the plan: its second cell, which pop(0) makes the first
follow(planned) ==
    [move |-> direction_to(planned.current_path[2]), ag |-> pop_path(planned)]

\* _survival_strategy once _is_food_reachable_safely has answered
\* (lines 73-83); planned is the agent after _plan_path when it answered yes
survival_with(planned, food_safe) ==
    IF food_safe /\ Len(planned.current_path) > 1
                 /\ _verify_move_safety(planned.current_path[2])
    THEN follow(planned)
    ELSE _hamiltonian_fallback(planned)

survival_plan(ag, food_safe) ==
    survival_with(IF food_safe THEN _plan_path(ag) ELSE ag, food_safe)

_survival_strategy(ag) == survival_plan(ag, _is_food_reachable_safely)

\* get_next_move in normal mode after the replanning test (lines 49-60)
normal_with(planned) ==
    IF Len(planned.current_path) > 1 /\ is_position_safe(planned.current_path[2])
    THEN follow(planned)
    ELSE _tail_chase_fallback(planned)

get_next_move(ag) ==
    IF survival_mode
    THEN _survival_strategy(ag)
    ELSE normal_with(IF dynamic_replanning \/ ag.current_path = <<>>
                     THEN _plan_path(ag)
                     ELSE ag)

---------------------------------------------------------------------------
(* agent_bfs.py: BFSAgent, with the get_neighbors of its own module         *)

agent_bfs_directions == << <<0, -1>>, <<0, 1>>, <<-1, 0>>, <<1, 0>> >>

agent_bfs_get_neighbors(pos, rows, cols) ==
    LET new_pos(i) == <<pos[1] + agent_bfs_directions[i][1],
                        pos[2] + agent_bfs_directions[i][2]>>
        all == [i \in 1..Len(agent_bfs_directions) |-> new_pos(i)]
    IN  SelectSeq(all, LAMBDA p : /\ 0 <= p[1] /\ p[1] < cols
                                  /\ 0 <= p[2] /\ p[2] < rows)

\* the for loop over the neighbours of the dequeued cell (lines 76-79 and
\* 105-108)
RECURSIVE agent_bfs_expand(_, _, _, _, _, _)
agent_bfs_expand(neighbors, i, path, obs, queue, visited) ==
    IF i > Len(neighbors)
    THEN [queue |-> queue, visited |-> visited]
    ELSE LET neighbor == neighbors[i]
         IN  IF neighbor \notin visited /\ neighbor \notin obs
             THEN agent_bfs_expand(neighbors, i + 1, path, obs,
                                   Append(queue, [pos |-> neighbor,
                                                  path |-> Append(path, neighbor)]),
                                   visited \cup {neighbor})
             ELSE agent_bfs_expand(neighbors, i + 1, path, obs, queue, visited)

\* the while loop (lines 68-79 and 95-108): the path of the first dequeued
\* entry whose cell is the target, <<>> when the queue runs empty
RECURSIVE agent_bfs_loop(_, _, _, _)
agent_bfs_loop(queue, visited, target, obs) ==
    IF queue = <<>>
    THEN <<>>
    ELSE LET current == Head(queue).pos
             path == Head(queue).path
         IN  IF current = target
             THEN path
             ELSE LET e == agent_bfs_expand(
                               agent_bfs_get_neighbors(current, grid_rows, grid_cols),
                               1, path, obs, Tail(queue), visited)
                  IN  agent_bfs_loop(e.queue, e.visited, target, obs)

\* the search from the head: queue = deque([(head, [head])]), visited = {head}
agent_bfs_from_head(target, obs) ==
    agent_bfs_loop(<< [pos |-> snake[1], path |-> <<snake[1]>>] >>, {snake[1]}, target, obs)

\* BFSAgent._plan_path: the value it leaves in current_path
BFSAgent_plan_path == agent_bfs_from_head(food, Range(Rest(snake)))

\* BFSAgent._find_safe_move on the neighbours of the head (lines 116-120)
first_safe_move(neighbors) ==
    LET safe == SelectSeq(neighbors, is_position_safe)
    IN  IF safe # <<>> THEN direction_to(safe[1]) ELSE direction

BFSAgent_find_safe_move ==
    first_safe_move(agent_bfs_get_neighbors(snake[1], grid_rows, grid_cols))

\* BFSAgent._tail_chase_fallback once the loop has ended with path, <<>>
\* when the tail was not dequeued (lines 98-111)
tail_chase_along(path) ==
    IF Len(path) > 1 THEN direction_to(path[2]) ELSE BFSAgent_find_safe_move

BFSAgent_tail_chase_fallback ==
    tail_chase_along(agent_bfs_from_head(snake[Len(snake)], Range(Front(Rest(snake)))))

\* BFSAgent.get_next_move after _plan_path has left planned in current_path
\* (lines 48-56)
bfs_agent_move_with(planned) ==
    IF Len(planned) > 1
    THEN [move |-> direction_to(planned[2]), current_path |-> Tail(planned),
          log |-> <<"found path">>]
    ELSE [move |-> BFSAgent_tail_chase_fallback, current_path |-> planned,
          log |-> IF planned = <<>> THEN <<"no path">> ELSE <<"found path">>]

BFSAgent_get_next_move == bfs_agent_move_with(BFSAgent_plan_path)

---------------------------------------------------------------------------
(* agent_alphabeta.py: AlphaBetaAgent. A state of the look-ahead is the     *)
(* record [snake, food, game_over].                                         *)

\* the default max_depth of _count_free_space
free_space_max_depth == 8

\* _count_free_space (lines 180-196): the flood fill of agent.py with a
\* depth limit that is always given
_count_free_space(pos, state) ==
    count_loop(<< [pos |-> pos, depth |-> 0] >>, {pos}, Range(Rest(state.snake)),
               free_space_max_depth, grid_rows, grid_cols)

\* the sum of _evaluate_state for a state that is not over (lines 136-166)
total_score(head, state, free_space) ==
    LET food_score == -(manhattan_distance(head, state.food)) * 10
        space_score == free_space * 15
        tail_score == IF Len(state.snake) > 1
                      THEN manhattan_distance(head, state.snake[Len(state.snake)]) * 5
                      ELSE 0
        center == <<grid_cols \div 2, grid_rows \div 2>>
        center_score == -(manhattan_distance(head, center)) * 2
        length_score == Len(state.snake) * 20
    IN  food_score + space_score + tail_score + center_score + length_score

_evaluate_state(state) ==
    IF state.game_over
    THEN -10000
    ELSE total_score(state.snake[1], state, _count_free_space(state.snake[1], state))

\* _simulate_move (lines 200-217)
_simulate_move(next_pos) ==
    [snake |-> IF next_pos = food
               THEN <<next_pos>> \o snake
               ELSE <<next_pos>> \o Front(snake),
     food |-> food,
     game_over |-> \/ next_pos \in Range(snake)
                   \/ ~(/\ 0 <= next_pos[1] /\ next_pos[1] < grid_cols
                        /\ 0 <= next_pos[2] /\ next_pos[2] < grid_rows)]

\* _minimax (lines 80-121). Below the terminal test both branches loop over
\* the neighbours of the head and test each with self._is_safe_in_state; the
\* class has no such attribute (the function of that name is defined at
\* module level, lines 239-246), so the first iteration raises
\* AttributeError. Without a neighbour the loop is skipped and the state is
\* evaluated (lines 102 and 121).
_minimax(state, depth, maximizing) ==
    IF depth = 0 \/ state.game_over
    THEN [raised |-> FALSE, value |-> _evaluate_state(state)]
    ELSE IF get_neighbors(state.snake[1], grid_rows, grid_cols) # <<>>
         THEN [raised |-> TRUE, value |-> 0]
         ELSE [raised |-> FALSE, value |-> _evaluate_state(state)]

\* the for loop over possible_moves (lines 51-60) from its i-th entry; best
\* is the index of best_move, 0 while best_move is None and best_value is
\* -inf; nodes counts the calls of _minimax
RECURSIVE alphabeta_loop(_, _, _, _, _)
RECURSIVE alphabeta_step(_, _, _, _, _, _)
alphabeta_step(possible, i, best, best_value, nodes, r) ==
    IF r.raised
    THEN [raised |-> TRUE, move |-> <<0, 0>>, nodes |-> nodes + 1]
    ELSE IF best = 0 \/ r.value > best_value
         THEN alphabeta_loop(possible, i + 1, i, r.value, nodes + 1)
         ELSE alphabeta_loop(possible, i + 1, best, best_value, nodes + 1)

alphabeta_loop(possible, i, best, best_value, nodes) ==
    IF i > Len(possible)
    THEN [raised |-> FALSE,
          move |-> IF best # 0 THEN direction_to(possible[best]) ELSE direction,
          nodes |-> nodes]
    ELSE alphabeta_step(possible, i, best, best_value, nodes,
                        _minimax(_simulate_move(possible[i]), alphabeta_depth - 1, FALSE))

\* AlphaBetaAgent.get_next_move (lines 34-64): raised tells that the call
\* ended with an exception and returned no move
AlphaBetaAgent_get_next_move ==
    alphabeta_loop(get_safe_neighbors(snake[1]), 1, 0, 0, 0)

---------------------------------------------------------------------------
(* The search driver: a call of each search on the same arguments, as the   *)
(* tests of test_search.py make them.                                       *)

\* the subsets of S with at most n elements
RECURSIVE SubsetsUpTo(_, _)
SubsetsUpTo(S, n) ==
    IF n = 0 THEN {{}}
    ELSE LET smaller == SubsetsUpTo(S, n - 1)
         IN  smaller \cup {T \cup {c} : T \in smaller, c \in S}

\* the game, the agent and the tick while the library is called directly
NoGame ==
    /\ snake = <<>> /\ direction = <<1, 0>> /\ next_direction = <<1, 0>>
    /\ food = <<0, 0>> /\ score = 0 /\ game_over = FALSE /\ moves = 0
    /\ survival_mode = FALSE
    /\ dynamic_replanning = TRUE /\ survival_mode_threshold = 0
    /\ algorithm = "astar" /\ heuristic = "manhattan" /\ current_path = <<>>
    /\ search_result = NoResult /\ last_path_length = 0 /\ log = <<>>
    /\ agent_kind = "none" /\ alphabeta_depth = 0 /\ nodes_evaluated = 0
    /\ pc = "library" /\ move = <<0, 0>> /\ update_result = "none"

NoCalls ==
    /\ called = {}
    /\ bfs_result = NoResult
    /\ astar_result = NoResult
    /\ count_result = 0
    /\ sim_result = FALSE

InitSearch ==
    /\ grid_rows \in 1..MaxRows
    /\ grid_cols \in 1..MaxCols
    /\ start \in Cells(grid_rows, grid_cols)
    /\ goal \in Cells(grid_rows, grid_cols)
    /\ obstacles \in SubsetsUpTo(Cells(grid_rows, grid_cols), MaxObstacles)
    /\ heuristic_name = "manhattan"
    /\ snake_body = <<>> /\ sim_path = <<>>
    /\ NoCalls
    /\ NoGame

CallBfs ==
    /\ pc = "library"
    /\ called = {}
    /\ bfs_result' = bfs_search(start, goal, obstacles, grid_rows, grid_cols)
    /\ called' = called \cup {"bfs"}
    /\ UNCHANGED <<start, goal, obstacles, heuristic_name, snake_body, sim_path,
                   astar_result, count_result, sim_result>>
    /\ UNCHANGED <<gridVars, gameVars, configVars, agentVars, tickVars>>

CallAstar ==
    /\ pc = "library"
    /\ "bfs" \in called
    /\ "astar" \notin called
    /\ \E name \in HeuristicNames :
        /\ heuristic_name' = name
        /\ astar_result' = astar_search(start, goal, obstacles, grid_rows, grid_cols, name)
    /\ called' = called \cup {"astar"}
    /\ UNCHANGED <<start, goal, obstacles, snake_body, sim_path,
                   bfs_result, count_result, sim_result>>
    /\ UNCHANGED <<gridVars, gameVars, configVars, agentVars, tickVars>>

NextSearch == CallBfs \/ CallAstar

SpecSearch == InitSearch /\ [][NextSearch]_vars

---------------------------------------------------------------------------
(* The same calls on grids without obstacles, and the flood fill on them.   *)

\* every grid of at most MaxOpenRows rows and MaxOpenCols columns, from the
\* largest down
InitOpen ==
    /\ \E fewer_rows \in 0..(MaxOpenRows - 1), fewer_cols \in 0..(MaxOpenCols - 1) :
           /\ grid_rows = MaxOpenRows - fewer_rows
           /\ grid_cols = MaxOpenCols - fewer_cols
    /\ start \in Cells(grid_rows, grid_cols)
    /\ goal \in Cells(grid_rows, grid_cols)
    /\ obstacles = {}
    /\ heuristic_name = "manhattan"
    /\ snake_body = <<>> /\ sim_path = <<>>
    /\ NoCalls
    /\ NoGame

\* _count_reachable_spaces(start, obstacles), max_depth left at None
CallCount ==
    /\ pc = "library"
    /\ called = {}
    /\ count_result' = _count_reachable_spaces(start, obstacles, 0, grid_rows, grid_cols)
    /\ called' = called \cup {"count"}
    /\ UNCHANGED <<start, goal, obstacles, heuristic_name, snake_body, sim_path,
                   bfs_result, astar_result, sim_result>>
    /\ UNCHANGED <<gridVars, gameVars, configVars, agentVars, tickVars>>

NextOpen == CallBfs \/ CallAstar \/ CallCount

SpecOpen == InitOpen /\ [][NextOpen]_vars

---------------------------------------------------------------------------
(* Calls of simulate_snake_movement on a body and a path from its head.     *)

\* the cells next to c in the grid
Around(c, rows, cols) == Range(get_neighbors(c, rows, cols))

\* the sequences of at most n cells from c, each cell next to the one before
RECURSIVE WalksFrom(_, _, _, _)
WalksFrom(c, n, rows, cols) ==
    IF n <= 1 THEN {<<c>>}
    ELSE LET W == WalksFrom(c, n - 1, rows, cols)
         IN  W \cup UNION {{Append(w, d) : d \in Around(w[Len(w)], rows, cols)} : w \in W}

NoDuplicates(s) == \A i, j \in 1..Len(s) : i # j => s[i] # s[j]

\* the bodies of at most n cells: consecutive cells adjacent, no cell twice
Bodies(n, rows, cols) ==
    {b \in UNION {WalksFrom(c, n, rows, cols) : c \in Cells(rows, cols)} : NoDuplicates(b)}

InitSim ==
    /\ grid_rows = MaxDim
    /\ grid_cols = MaxDim
    /\ snake_body \in Bodies(MaxBody, grid_rows, grid_cols)
    /\ sim_path \in WalksFrom(snake_body[1], MaxPathLen, grid_rows, grid_cols)
    /\ start = <<0, 0>> /\ goal = <<0, 0>> /\ obstacles = {}
    /\ heuristic_name = "manhattan"
    /\ NoCalls
    /\ NoGame

CallSimulate ==
    /\ pc = "library"
    /\ called = {}
    /\ sim_result' = simulate_snake_movement(snake_body, sim_path)
    /\ called' = called \cup {"simulate"}
    /\ UNCHANGED <<start, goal, obstacles, heuristic_name, snake_body, sim_path,
                   bfs_result, astar_result, count_result>>
    /\ UNCHANGED <<gridVars, gameVars, configVars, agentVars, tickVars>>

NextSim == CallSimulate

SpecSim == InitSim /\ [][NextSim]_vars

---------------------------------------------------------------------------
(* Calls of _spawn_food on a game whose snake has been set to a body, as    *)
(* test_food_spawn_not_on_snake makes them.                                  *)

\* the walks from the walks of W that visit no cell twice, W included
RECURSIVE Extensions(_, _, _)
Extensions(W, rows, cols) ==
    LET longer == UNION {{Append(w, d) : d \in Around(w[Len(w)], rows, cols) \ Range(w)}
                          : w \in W}
    IN  IF longer = {} THEN W ELSE W \cup Extensions(longer, rows, cols)

\* every body the grid has room for, up to the one that fills it
BodiesOfAnyLength(rows, cols) ==
    Extensions({<<c>> : c \in Cells(rows, cols)}, rows, cols)

InitSpawn ==
    /\ grid_rows \in 1..MaxSpawnRows
    /\ grid_cols \in 1..MaxSpawnCols
    /\ snake \in BodiesOfAnyLength(grid_rows, grid_cols)
    /\ direction = <<1, 0>> /\ next_direction = <<1, 0>>
    /\ food = <<0, 0>> /\ score = 0 /\ game_over = FALSE /\ moves = 0
    /\ survival_mode = FALSE
    /\ dynamic_replanning = TRUE /\ survival_mode_threshold = 0
    /\ algorithm = "astar" /\ heuristic = "manhattan" /\ current_path = <<>>
    /\ search_result = NoResult /\ last_path_length = 0 /\ log = <<>>
    /\ agent_kind = "none" /\ alphabeta_depth = 0 /\ nodes_evaluated = 0
    /\ pc = "library" /\ move = <<0, 0>> /\ update_result = "none"
    /\ start = <<0, 0>> /\ goal = <<0, 0>> /\ obstacles = {}
    /\ heuristic_name = "manhattan"
    /\ snake_body = <<>> /\ sim_path = <<>>
    /\ NoCalls

\* food = self.game._spawn_food()
CallSpawnFood ==
    /\ pc = "library"
    /\ called = {}
    /\ food' \in spawn_food_choices(snake, grid_rows, grid_cols)
    /\ called' = called \cup {"spawn"}
    /\ UNCHANGED <<start, goal, obstacles, heuristic_name, snake_body, sim_path,
                   bfs_result, astar_result, count_result, sim_result>>
    /\ UNCHANGED <<snake, direction, next_direction, score, game_over, moves, survival_mode>>
    /\ UNCHANGED <<gridVars, configVars, agentVars, tickVars>>

NextSpawn == CallSpawnFood

SpecSpawn == InitSpawn /\ [][NextSpawn]_vars

---------------------------------------------------------------------------
(* The game played by the agent: the controller's tick (main.py             *)
(* _update_game) asks the agent for a move, hands it to change_direction    *)
(* and updates the game; the R key resets the game and makes a new agent.   *)

NoLibraryCalls ==
    /\ start = <<0, 0>> /\ goal = <<0, 0>> /\ obstacles = {}
    /\ heuristic_name = "manhattan"
    /\ snake_body = <<>> /\ sim_path = <<>>
    /\ NoCalls

Init ==
    /\ grid_rows = GameRows
    /\ grid_cols = GameCols
    /\ dynamic_replanning \in BOOLEAN
    /\ survival_mode_threshold \in 1..MaxThreshold
    /\ algorithm \in {"astar", "bfs"}
    /\ heuristic \in HeuristicNames
    \* SnakeGame.__init__, reset
    /\ snake = reset_snake(grid_rows, grid_cols)
    /\ direction = <<1, 0>>
    /\ next_direction = <<1, 0>>
    /\ food \in spawn_food_choices(snake, grid_rows, grid_cols)
    /\ score = 0
    /\ game_over = FALSE
    /\ moves = 0
    /\ survival_mode = FALSE
    \* SnakeAIAgent.__init__; search_result None is NoResult, which no search
    \* returns (its visited set is empty)
    /\ current_path = <<>>
    /\ search_result = NoResult
    /\ last_path_length = 0
    /\ log = <<>>
    /\ agent_kind = "SnakeAIAgent"
    /\ alphabeta_depth = 0
    /\ nodes_evaluated = 0
    /\ pc = "decide"
    /\ move = <<0, 0>>
    /\ update_result = "none"
    /\ NoLibraryCalls

\* direction = self.agent.get_next_move()
GetNextMove ==
    /\ pc = "decide"
    /\ agent_kind = "SnakeAIAgent"
    /\ ~game_over
    /\ \E r \in {get_next_move(AgentFields)} :
           /\ move' = r.move
           /\ current_path' = r.ag.current_path
           /\ search_result' = r.ag.search_result
           /\ last_path_length' = r.ag.last_path_length
           /\ log' = r.ag.log
           /\ snake' = r.ag.game_snake
    /\ pc' = "steer"
    /\ UNCHANGED update_result
    /\ UNCHANGED <<direction, next_direction, food, score, game_over, moves, survival_mode>>
    /\ UNCHANGED <<algorithm, heuristic, agent_kind, alphabeta_depth, nodes_evaluated>>
    /\ UNCHANGED <<gridVars, callVars, configVars>>

\* a change_direction that takes whatever it is given
change_direction_unguarded(new_direction) == new_direction

\* what change_direction makes of next_direction (lines 97-99)
change_direction(new_direction) ==
    LET opposite == <<-direction[1], -direction[2]>>
    IN  IF new_direction # opposite /\ new_direction # <<0, 0>>
        THEN new_direction
        ELSE next_direction

\* self.game.change_direction(direction)
ChangeDirection ==
    /\ pc = "steer"
    /\ next_direction' = change_direction(move)
    /\ pc' = "update"
    /\ UNCHANGED <<snake, direction, food, score, game_over, moves, survival_mode, move>>
    /\ UNCHANGED update_result
    /\ UNCHANGED <<gridVars, callVars, configVars, agentVars>>

\* a threshold test that asks for a score above the threshold
survival_mode_above_threshold(new_score) ==
    IF new_score > survival_mode_threshold THEN TRUE ELSE survival_mode

\* survival_mode after food has raised the score to new_score (lines 144-146)
survival_mode_at_threshold(new_score) ==
    IF new_score >= survival_mode_threshold THEN TRUE ELSE survival_mode

\* a self-collision test that lets the head enter the cell of the tail
hits_body_but_tail(new_head) == new_head \in Range(Front(snake))

\* the self-collision test of update (line 126): the whole list, tail included
hits_body(new_head) == new_head \in Range(snake)

\* self.game.update(). When the game is over the controller skips the call
\* (main.py line 261) and a direct call returns False at once (lines
\* 109-110): nothing changes either way.
Update ==
    /\ pc = "update"
    /\ IF game_over
       THEN /\ update_result' = "False"
            /\ UNCHANGED gameVars
       ELSE /\ moves < MaxMoves
            /\ direction' = next_direction
            /\ LET new_head == <<snake[1][1] + next_direction[1],
                                 snake[1][2] + next_direction[2]>>
                   grown == <<new_head>> \o snake
               IN  IF ~(0 <= new_head[1] /\ new_head[1] < grid_cols
                        /\ 0 <= new_head[2] /\ new_head[2] < grid_rows)
                   THEN /\ game_over' = TRUE
                        /\ update_result' = "False"
                        /\ UNCHANGED <<snake, food, score, moves, survival_mode>>
                   ELSE IF hits_body(new_head)
                   THEN /\ game_over' = TRUE
                        /\ update_result' = "False"
                        /\ UNCHANGED <<snake, food, score, moves, survival_mode>>
                   ELSE IF new_head = food
                   THEN /\ snake' = grown
                        /\ score' = score + 1
                        /\ food' \in spawn_food_choices(grown, grid_rows, grid_cols)
                        /\ survival_mode' = survival_mode_at_threshold(score + 1)
                        /\ moves' = moves + 1
                        /\ update_result' = "True"
                        /\ UNCHANGED game_over
                   ELSE /\ snake' = Front(grown)
                        /\ moves' = moves + 1
                        /\ update_result' = "True"
                        /\ UNCHANGED <<food, score, game_over, survival_mode>>
            /\ UNCHANGED next_direction
    /\ pc' = "decide"
    /\ UNCHANGED move
    /\ UNCHANGED <<gridVars, callVars, configVars, agentVars>>

\* the R key: self.game.reset(), self._create_agent()
Reset ==
    /\ pc = "decide"
    /\ moves > 0 \/ game_over
    /\ snake' = reset_snake(grid_rows, grid_cols)
    /\ direction' = <<1, 0>>
    /\ next_direction' = <<1, 0>>
    /\ food' \in spawn_food_choices(reset_snake(grid_rows, grid_cols), grid_rows, grid_cols)
    /\ score' = 0
    /\ game_over' = FALSE
    /\ moves' = 0
    /\ survival_mode' = FALSE
    /\ current_path' = <<>>
    /\ search_result' = NoResult
    /\ last_path_length' = 0
    /\ log' = <<>>
    /\ nodes_evaluated' = 0
    /\ UNCHANGED <<algorithm, heuristic, agent_kind, alphabeta_depth, tickVars>>
    /\ UNCHANGED <<gridVars, callVars, configVars>>

Next == GetNextMove \/ ChangeDirection \/ Update \/ Reset

Spec == Init /\ [][Next]_vars

---------------------------------------------------------------------------
(* The controller in each of its modes (main.py _create_agent): no agent    *)
(* in human mode, where the arrow keys call change_direction, a BFSAgent,   *)
(* an AlphaBetaAgent, or a SnakeAIAgent.                                     *)

AgentKinds == {"none", "BFSAgent", "AlphaBetaAgent", "SnakeAIAgent"}

InitModes ==
    /\ grid_rows = GameRows
    /\ grid_cols = GameCols
    /\ agent_kind \in AgentKinds
    /\ survival_mode_threshold \in 1..MaxThreshold
    \* SnakeGame.__init__, reset
    /\ snake = reset_snake(grid_rows, grid_cols)
    /\ direction = <<1, 0>>
    /\ next_direction = <<1, 0>>
    /\ food \in spawn_food_choices(snake, grid_rows, grid_cols)
    /\ score = 0
    /\ game_over = FALSE
    /\ moves = 0
    /\ survival_mode = FALSE
    \* the fields of the agent; those its class does not have keep the
    \* values of NoGame
    /\ IF agent_kind = "SnakeAIAgent"
       THEN /\ algorithm \in {"astar", "bfs"}
            /\ heuristic \in HeuristicNames
            /\ dynamic_replanning \in BOOLEAN
       ELSE /\ algorithm = "astar"
            /\ heuristic = "manhattan"
            /\ dynamic_replanning = TRUE
    /\ alphabeta_depth \in IF agent_kind = "AlphaBetaAgent" THEN 1..MaxDepth ELSE {0}
    /\ nodes_evaluated = 0
    /\ current_path = <<>>
    /\ search_result = NoResult
    /\ last_path_length = 0
    /\ log = <<>>
    /\ pc = "decide"
    /\ move = <<0, 0>>
    /\ update_result = "none"
    /\ NoLibraryCalls

\* direction = self.agent.get_next_move(), the agent a BFSAgent
BfsGetNextMove ==
    /\ pc = "decide"
    /\ agent_kind = "BFSAgent"
    /\ ~game_over
    /\ \E r \in {BFSAgent_get_next_move} :
           /\ move' = r.move
           /\ current_path' = r.current_path
           /\ log' = r.log
    /\ pc' = "steer"
    /\ UNCHANGED update_result
    /\ UNCHANGED <<algorithm, heuristic, search_result, last_path_length,
                   agent_kind, alphabeta_depth, nodes_evaluated>>
    /\ UNCHANGED <<gridVars, callVars, gameVars, configVars>>

\* direction = self.agent.get_next_move(), the agent an AlphaBetaAgent; an
\* exception leaves the tick, and the program, at "error"
AlphaBetaGetNextMove ==
    /\ pc = "decide"
    /\ agent_kind = "AlphaBetaAgent"
    /\ ~game_over
    /\ \E r \in {AlphaBetaAgent_get_next_move} :
           /\ nodes_evaluated' = r.nodes
           /\ IF r.raised
              THEN pc' = "error" /\ UNCHANGED move
              ELSE pc' = "steer" /\ move' = r.move
    /\ UNCHANGED update_result
    /\ UNCHANGED <<algorithm, heuristic, current_path, search_result, last_path_length,
                   log, agent_kind, alphabeta_depth>>
    /\ UNCHANGED <<gridVars, callVars, gameVars, configVars>>

\* the values change_direction is called with: the four arrow keys of
\* _handle_game_event, and the zero vector and any other unit vector of a
\* direct call
KeyDirections == Range(directions) \cup {<<0, 0>>}

\* a call of self.game.change_direction between two ticks of human mode
KeyDown ==
    /\ pc = "decide"
    /\ agent_kind = "none"
    /\ \E new_direction \in KeyDirections :
           /\ next_direction' = change_direction(new_direction)
           /\ move' = new_direction
    /\ UNCHANGED <<snake, direction, food, score, game_over, moves, survival_mode, pc>>
    /\ UNCHANGED update_result
    /\ UNCHANGED <<gridVars, callVars, configVars, agentVars>>

\* _update_game in human mode or with the game over: no agent is asked
\* (line 256)
NoAgent ==
    /\ pc = "decide"
    /\ agent_kind = "none" \/ game_over
    /\ pc' = "update"
    /\ UNCHANGED <<move, update_result>>
    /\ UNCHANGED <<gridVars, callVars, gameVars, configVars, agentVars>>

NextModes ==
    \/ GetNextMove \/ BfsGetNextMove \/ AlphaBetaGetNextMove
    \/ KeyDown \/ NoAgent
    \/ ChangeDirection \/ Update \/ Reset

SpecModes == InitModes /\ [][NextModes]_vars

---------------------------------------------------------------------------
(* The game and a SnakeAIAgent used as a library, as the tests use them:    *)
(* on each tick the caller either asks the agent for the move or calls      *)
(* change_direction with a direction of its own, and then updates the game. *)
(* Replanning is disabled, so the agent's plan outlives the caller's moves. *)

\* self.game.change_direction(d) by the caller, the agent not asked
CallerSteers ==
    /\ pc = "decide"
    /\ agent_kind = "SnakeAIAgent"
    /\ ~game_over
    /\ \E new_direction \in Range(directions) :
           /\ next_direction' = change_direction(new_direction)
           /\ move' = new_direction
    /\ pc' = "update"
    /\ UNCHANGED <<snake, direction, food, score, game_over, moves, survival_mode>>
    /\ UNCHANGED update_result
    /\ UNCHANGED <<gridVars, callVars, configVars, agentVars>>

\* the agent keeps its plan between calls: config 'ai' 'dynamic_replanning'
\* is false
InitAssist == Init /\ ~dynamic_replanning

NextAssist == GetNextMove \/ CallerSteers \/ ChangeDirection \/ Update \/ Reset

SpecAssist == InitAssist /\ [][NextAssist]_vars

---------------------------------------------------------------------------
(* A game met in mid-play by a new agent that is asked for one move, as    *)
(* the tests set one up (test_game.py test_self_collision,                  *)
(* test_integration.py test_survival_mode_activation): the snake is any     *)
(* body of at least the initial length that visits no cell twice, heading   *)
(* away from its second cell, the food is on a free cell, the score is      *)
(* what the length tells and survival mode is on from the threshold.        *)

\* the bodies a game may hold after MaxSnake - initial_snake_length foods
MidGameBodies ==
    {b \in Bodies(MaxSnake, MidRows, GameCols) : Len(b) >= initial_snake_length}

InitMidGame ==
    /\ grid_rows = MidRows
    /\ grid_cols = GameCols
    \* the default of config 'ai' 'dynamic_replanning'
    /\ dynamic_replanning = TRUE
    /\ survival_mode_threshold \in 1..MaxThreshold
    /\ algorithm \in {"astar", "bfs"}
    /\ heuristic \in IF algorithm = "astar" THEN HeuristicNames ELSE {"manhattan"}
    /\ snake \in MidGameBodies
    /\ direction = <<snake[1][1] - snake[2][1], snake[1][2] - snake[2][2]>>
    /\ next_direction = direction
    /\ food \in spawn_food_choices(snake, grid_rows, grid_cols)
    /\ score = Len(snake) - initial_snake_length
    /\ game_over = FALSE
    /\ moves = score
    /\ survival_mode = (score >= survival_mode_threshold)
    /\ current_path = <<>>
    /\ search_result = NoResult
    /\ last_path_length = 0
    /\ log = <<>>
    /\ agent_kind = "SnakeAIAgent"
    /\ alphabeta_depth = 0
    /\ nodes_evaluated = 0
    /\ pc = "decide"
    /\ move = <<0, 0>>
    /\ update_result = "none"
    /\ NoLibraryCalls

NextMidGame == GetNextMove \/ ChangeDirection

SpecMidGame == InitMidGame /\ [][NextMidGame]_vars

---------------------------------------------------------------------------
(* Calls of _find_safe_move on a game whose snake has been set by hand to   *)
(* a body of at least the initial length that visits no cell twice.         *)

InitSafeMove ==
    /\ grid_rows = GameRows
    /\ grid_cols = GameCols
    /\ snake \in {b \in Bodies(MaxCoil, grid_rows, grid_cols) : Len(b) >= initial_snake_length}
    /\ direction = <<snake[1][1] - snake[2][1], snake[1][2] - snake[2][2]>>
    /\ next_direction = direction
    /\ food \in spawn_food_choices(snake, grid_rows, grid_cols)
    /\ score = Len(snake) - initial_snake_length
    /\ game_over = FALSE
    /\ moves = score
    /\ survival_mode = FALSE
    /\ dynamic_replanning = TRUE /\ survival_mode_threshold = MaxCoil
    /\ algorithm = "astar" /\ heuristic = "manhattan" /\ current_path = <<>>
    /\ search_result = NoResult /\ last_path_length = 0 /\ log = <<>>
    /\ agent_kind = "SnakeAIAgent" /\ alphabeta_depth = 0 /\ nodes_evaluated = 0
    /\ pc = "library" /\ move = <<0, 0>> /\ update_result = "none"
    /\ NoLibraryCalls

\* move = agent._find_safe_move()
CallFindSafeMove ==
    /\ pc = "library"
    /\ called = {}
    /\ \E r \in {_find_safe_move(AgentFields)} :
           /\ move' = r.move
           /\ log' = r.ag.log
    /\ called' = called \cup {"find_safe_move"}
    /\ UNCHANGED <<start, goal, obstacles, heuristic_name, snake_body, sim_path,
                   bfs_result, astar_result, count_result, sim_result>>
    /\ UNCHANGED <<algorithm, heuristic, current_path, search_result, last_path_length,
                   agent_kind, alphabeta_depth, nodes_evaluated>>
    /\ UNCHANGED <<pc, update_result>>
    /\ UNCHANGED <<gridVars, gameVars, configVars>>

NextSafeMove == CallFindSafeMove

SpecSafeMove == InitSafeMove /\ [][NextSafeMove]_vars

---------------------------------------------------------------------------
(* A path that simulate_snake_movement has accepted, replayed on the game:  *)
(* the snake is set by hand to the body (as test_self_collision sets it),   *)
(* the food is off the body and off the path, and each step of the path     *)
(* goes through change_direction and update.                                 *)

InitReplay ==
    /\ grid_rows = MaxDim
    /\ grid_cols = MaxDim
    /\ snake_body \in {b \in Bodies(MaxReplayBody, grid_rows, grid_cols) :
                          Len(b) >= initial_snake_length}
    /\ sim_path \in WalksFrom(snake_body[1], MaxPathLen, grid_rows, grid_cols)
    /\ start = <<0, 0>> /\ goal = <<0, 0>> /\ obstacles = {}
    /\ heuristic_name = "manhattan"
    /\ NoCalls
    \* game = SnakeGame(); game.snake = body; game.direction = ...
    /\ snake = snake_body
    /\ direction = <<snake[1][1] - snake[2][1], snake[1][2] - snake[2][2]>>
    /\ next_direction = direction
    /\ food \in Cells(grid_rows, grid_cols) \ (Range(snake) \cup Range(sim_path))
    /\ score = 0 /\ game_over = FALSE /\ moves = 0 /\ survival_mode = FALSE
    /\ dynamic_replanning = TRUE /\ survival_mode_threshold = MaxThreshold
    /\ algorithm = "astar" /\ heuristic = "manhattan" /\ current_path = <<>>
    /\ search_result = NoResult /\ last_path_length = 0 /\ log = <<>>
    /\ agent_kind = "none" /\ alphabeta_depth = 0 /\ nodes_evaluated = 0
    /\ pc = "library" /\ move = <<0, 0>> /\ update_result = "none"

\* the next step of the accepted path, as a direction from the head; moves
\* counts the steps already made
ReplayStep ==
    /\ pc \in {"library", "decide"}
    /\ "simulate" \in called /\ sim_result
    /\ ~game_over
    /\ moves + 1 < Len(sim_path)
    /\ move' = direction_to(sim_path[moves + 2])
    /\ pc' = "steer"
    /\ UNCHANGED update_result
    /\ UNCHANGED <<gridVars, callVars, gameVars, configVars, agentVars>>

NextReplay == CallSimulate \/ ReplayStep \/ ChangeDirection \/ Update

SpecReplay == InitReplay /\ [][NextReplay]_vars

---------------------------------------------------------------------------
(* Reference notions the properties are stated with, defined on sets of     *)
(* cells and independent of the search code.                                 *)

Adjacent(a, b) ==
    \/ a[1] = b[1] /\ (a[2] = b[2] + 1 \/ b[2] = a[2] + 1)
    \/ a[2] = b[2] /\ (a[1] = b[1] + 1 \/ b[1] = a[1] + 1)

\* one more step from the cells of S through cells that are not in obs
StepFrom(S, obs, rows, cols) ==
    S \cup {c \in Cells(rows, cols) \ obs : \E s \in S : Adjacent(c, s)}

\* the cells reachable from S by 4-adjacent in-bounds steps that avoid obs
RECURSIVE ReachFrom(_, _, _, _)
ReachFrom(S, obs, rows, cols) ==
    LET N == StepFrom(S, obs, rows, cols)
    IN  IF N = S THEN S ELSE ReachFrom(N, obs, rows, cols)

\* the least number of steps from a cell of S to target (0 when target is
\* not reachable from S)
RECURSIVE StepsTo(_, _, _, _, _)
StepsTo(S, target, obs, rows, cols) ==
    IF target \in S THEN 0
    ELSE LET N == StepFrom(S, obs, rows, cols)
         IN  IF N = S THEN 0 ELSE 1 + StepsTo(N, target, obs, rows, cols)

GoalReachable == goal \in ReachFrom({start}, obstacles, grid_rows, grid_cols)

ShortestSteps == StepsTo({start}, goal, obstacles, grid_rows, grid_cols)

BfsCalled == "bfs" \in called
AstarCalled == "astar" \in called
BothCalled == BfsCalled /\ AstarCalled

PathWellFormed(r) ==
    /\ Len(r.path) >= 1
    /\ r.path[1] = start
    /\ r.path[Len(r.path)] = goal
    /\ \A i \in 1..(Len(r.path) - 1) : Adjacent(r.path[i], r.path[i + 1])
    /\ \A i \in 1..Len(r.path) : r.path[i] \in Cells(grid_rows, grid_cols)
    /\ \A i, j \in 1..Len(r.path) : i # j => r.path[i] # r.path[j]
    /\ \A i \in 2..Len(r.path) : r.path[i] \notin obstacles

---------------------------------------------------------------------------
(* Properties of the searches *)

\* C1: whenever bfs_search or astar_search returns found = true, the path
\* starts at start, ends at goal, moves by 4-adjacent steps, stays inside the
\* grid, repeats no cell and has no cell after the first in obstacles.
C1_FoundPathWellFormed ==
    /\ (BfsCalled /\ bfs_result.found) => PathWellFormed(bfs_result)
    /\ (AstarCalled /\ astar_result.found) => PathWellFormed(astar_result)

\* both searches found a path of at least four cells around obstacles
C1_Witness ==
    /\ BothCalled /\ bfs_result.found /\ astar_result.found
    /\ obstacles # {}
    /\ Len(bfs_result.path) >= 4 /\ Len(astar_result.path) >= 4
    /\ Len(bfs_result.path) - 1 > manhattan_distance(start, goal)

NotFoundShape(r) == r.path = <<>> /\ r.path_cost = 0 /\ r.visited # {}

\* C2: with goal not in obstacles, both searches return found = true exactly
\* when goal is reachable from start by 4-adjacent in-bounds steps through
\* cells not in obstacles; a result with found = false has an empty path,
\* path_cost 0 and a non-empty visited set.
C2_FoundIffReachable ==
    /\ (BfsCalled /\ goal \notin obstacles) => (bfs_result.found <=> GoalReachable)
    /\ (AstarCalled /\ goal \notin obstacles) => (astar_result.found <=> GoalReachable)
    /\ (BfsCalled /\ ~bfs_result.found) => NotFoundShape(bfs_result)
    /\ (AstarCalled /\ ~astar_result.found) => NotFoundShape(astar_result)

\* both searches failed on a free goal that obstacles cut off from start
C2_Witness ==
    /\ BothCalled /\ goal \notin obstacles /\ ~GoalReachable
    /\ ~bfs_result.found /\ ~astar_result.found
    /\ Cardinality(bfs_result.visited) >= 2

\* C3: on a grid without obstacles astar_search with the manhattan heuristic
\* returns a path of (Manhattan distance + 1) cells and a path_cost equal to
\* the Manhattan distance.
C3_AstarOpenGridOptimal ==
    (AstarCalled /\ obstacles = {} /\ get_heuristic(heuristic_name) = "manhattan") =>
        /\ astar_result.found
        /\ Len(astar_result.path) = manhattan_distance(start, goal) + 1
        /\ astar_result.path_cost = manhattan_distance(start, goal)

\* the case of the test: a goal ten steps away, off the row and the column
\* of start
C3_Witness ==
    /\ AstarCalled /\ obstacles = {} /\ heuristic_name = "manhattan"
    /\ manhattan_distance(start, goal) = 10
    /\ start[1] # goal[1] /\ start[2] # goal[2]
    /\ astar_result.path_cost = 10

\* C4: when goal is reachable the path of bfs_search has the least possible
\* number of edges, and the path of astar_search with the manhattan
\* heuristic has as many cells as the path of bfs_search.
C4_ShortestPaths ==
    /\ (BfsCalled /\ GoalReachable) =>
          (bfs_result.found /\ Len(bfs_result.path) - 1 = ShortestSteps)
    /\ (BothCalled /\ GoalReachable /\ get_heuristic(heuristic_name) = "manhattan") =>
          (astar_result.found /\ Len(astar_result.path) = Len(bfs_result.path))

\* a shortest path that has to leave the bounding box of start and goal
C4_Witness ==
    /\ BothCalled /\ heuristic_name = "manhattan" /\ GoalReachable
    /\ ShortestSteps >= manhattan_distance(start, goal) + 2
    /\ Len(astar_result.path) = ShortestSteps + 1

\* C5: whenever found = true the reported path_cost is the number of edges
\* of the path, len(path) - 1, for bfs_search and astar_search alike.
C5_PathCostIsEdgeCount ==
    /\ (BfsCalled /\ bfs_result.found) =>
          bfs_result.path_cost = Len(bfs_result.path) - 1
    /\ (AstarCalled /\ astar_result.found) =>
          astar_result.path_cost = Len(astar_result.path) - 1

\* C6: if goal is a member of obstacles both searches return found = false,
\* also when start equals goal.
C6_GoalInObstaclesNotFound ==
    /\ (BfsCalled /\ goal \in obstacles) => ~bfs_result.found
    /\ (AstarCalled /\ goal \in obstacles) => ~astar_result.found

OpenFarApart ==
    /\ BothCalled /\ obstacles = {} /\ get_heuristic(heuristic_name) = "manhattan"
    /\ manhattan_distance(start, goal) >= 10

\* C7 as claimed: on a grid without obstacles, with start and goal at
\* Manhattan distance 10 or more, astar_search (manhattan) expands strictly
\* fewer nodes than bfs_search.
C7_AstarStrictlyFewer ==
    OpenFarApart => astar_result.nodes_expanded < bfs_result.nodes_expanded

\* C7 as amended: under the same conditions astar_search never expands more
\* nodes than bfs_search (the two counts can be equal).
C7_AstarNeverMore ==
    OpenFarApart => astar_result.nodes_expanded <= bfs_result.nodes_expanded

\* a far goal for which A* does expand fewer nodes than BFS
C7_Witness ==
    OpenFarApart /\ astar_result.nodes_expanded < bfs_result.nodes_expanded

\* C9: on a grid of W columns and H rows without obstacles the flood fill
\* from any cell, with no depth bound, counts W * H cells.
C9_FloodFillCountsGrid ==
    ("count" \in called /\ obstacles = {}) => count_result = grid_rows * grid_cols

\* the flood fill has run on a grid of several rows and columns
C9_Witness ==
    /\ "count" \in called /\ obstacles = {}
    /\ grid_rows >= 3 /\ grid_cols >= 3
    /\ count_result = grid_rows * grid_cols

---------------------------------------------------------------------------
(* Properties of the movement simulator *)

SimulateCalled == "simulate" \in called

\* every cell of the path after the first is free of the body
PathOffBody == \A i \in 2..Len(sim_path) : sim_path[i] \notin Range(snake_body)

\* C8 as claimed: for a duplicate-free body, a path of 4-adjacent cells
\* from the head whose other cells are all off the body is accepted.
C8_FreePathAccepted ==
    (SimulateCalled /\ PathOffBody) => sim_result = TRUE

\* C8 as amended: such a path is accepted when it also visits no cell twice.
C8_FreeSimplePathAccepted ==
    (SimulateCalled /\ PathOffBody /\ NoDuplicates(sim_path)) => sim_result = TRUE

\* a path of four distinct free cells replayed against a body of three
C8_Witness ==
    /\ SimulateCalled /\ PathOffBody /\ NoDuplicates(sim_path)
    /\ Len(sim_path) = 4 /\ Len(snake_body) = 3
    /\ sim_result = TRUE

---------------------------------------------------------------------------
(* Properties of the agent in survival mode *)

\* get_next_move has returned in survival mode and the game has not moved
SurvivalDecided == pc = "steer" /\ survival_mode

\* the cell the returned move leads to
NextCell == <<snake[1][1] + move[1], snake[1][2] + move[2]>>

\* the number of cells reachable from c when the body after a non-growing
\* move, without its new head, is in the way
SpaceAfter(c) == Cardinality(ReachFrom({c}, Range(Front(snake)), grid_rows, grid_cols))

\* the call ended by following the plan: every fallback logs a message
\* after the plan's
PlanFollowed == log # <<>> /\ log[Len(log)] = "found path"

\* the food plan has a first step and the space behind it is too small
PlanStepUnsafe ==
    /\ search_food.found /\ Len(search_food.path) > 1
    /\ SpaceAfter(search_food.path[2]) < Len(snake) + 5

\* C10: in survival mode get_next_move returns the first step of the food
\* plan only if the cells reachable from the next cell, with the body after
\* the simulated non-growing move (without the new head) as obstacles, number
\* at least len(body) + 5; when the count is lower the move returned is the
\* one the tail-chase fallback chooses.
C10_SurvivalSafetyGate ==
    SurvivalDecided =>
        /\ PlanFollowed =>
              /\ NextCell = current_path[1]
              /\ SpaceAfter(NextCell) >= Len(snake) + 5
        /\ PlanStepUnsafe =>
              /\ ~PlanFollowed
              /\ move = _hamiltonian_fallback(AgentFields).move

\* the food was safely reachable and the plan survived the simulation, but
\* its first step left too little space and the tail chase chose the move
C10_Witness ==
    /\ SurvivalDecided /\ PlanStepUnsafe
    /\ _is_food_reachable_safely
    /\ log = <<"found path", "hamiltonian">>

\* the gate let the first step of the plan through
C10_PlanStepTaken ==
    SurvivalDecided /\ PlanFollowed /\ SpaceAfter(NextCell) >= Len(snake) + 5

---------------------------------------------------------------------------
(* Properties of the game played by the agent *)

\* C11: through every sequence of ticks from reset in which the move of
\* get_next_move goes to change_direction and update is called, the snake
\* never holds a cell twice and no update makes it shorter.
C11_BodyIntact ==
    /\ [](NoDuplicates(snake))
    /\ [][pc = "update" => Len(snake') >= Len(snake)]_vars

\* the snake has eaten twice and moved on
C11_Witness ==
    /\ pc = "decide" /\ Len(snake) = initial_snake_length + 2
    /\ moves >= 3 /\ NoDuplicates(snake)

\* get_next_move has returned and the game has not moved
Decided == pc = "steer"

\* no 4-neighbour of the head is in bounds and off body[1:]
HeadBoxedIn == get_safe_neighbors(snake[1]) = <<>>

\* C12: when no 4-neighbour of the head is safe, get_next_move returns the
\* game's current direction, in survival mode and in normal mode alike.
C12_HoldsDirectionWhenBoxedIn ==
    (Decided /\ HeadBoxedIn) => move = direction

\* C13: in every reachable state where some 4-neighbour of the head is safe,
\* passing the move of get_next_move to change_direction and calling update
\* does not set game_over.
C13_OnlyHoldEndsEpisode ==
    [][(pc = "update" /\ ~HeadBoxedIn) => ~game_over']_vars

\* the last get_next_move returned the first step of a path to the tail
TailChased ==
    /\ Decided /\ log # <<>>
    /\ log[Len(log)] \in {"hamiltonian", "tail-chase"}

\* C14: whenever the tail-chase fallback finds a path from head to tail and
\* returns its first step, the cell that step leads to is not on the snake,
\* so update finds no self-collision; also when the head is next to the tail.
C14_TailChaseStepIsFree ==
    TailChased => NextCell \notin Range(snake)

---------------------------------------------------------------------------
(* Properties of the agents of the three classes *)

\* a step in which an agent's get_next_move ran, to its return or to an
\* exception
AgentConsulted == pc = "decide" /\ pc' \in {"steer", "error"}

\* C15: get_next_move of SnakeAIAgent, BFSAgent and AlphaBetaAgent leaves the
\* game's snake, food, direction, next_direction, score, moves, game_over
\* and survival_mode as they were.
C15_DecisionLeavesGameAlone ==
    [][AgentConsulted => UNCHANGED gameVars]_vars

\* a SnakeAIAgent has handed the game's snake to simulate_snake_movement
\* with a food path of at least three cells and followed the plan
C15_Witness ==
    /\ pc = "steer" /\ agent_kind = "SnakeAIAgent"
    /\ log = <<"found path">> /\ Len(current_path) >= 2
    /\ moves >= 1

UnitDirections == {<<0, -1>>, <<0, 1>>, <<-1, 0>>, <<1, 0>>}

\* C16: the direction returned by SnakeAIAgent.get_next_move and by
\* BFSAgent.get_next_move is one of (0,-1), (0,1), (-1,0), (1,0), with
\* dynamic replanning on or off, after any sequence of ticks from reset.
C16_MoveIsUnitVector ==
    (Decided /\ agent_kind \in {"SnakeAIAgent", "BFSAgent"}) => move \in UnitDirections

\* a SnakeAIAgent without replanning has used up its plan and chases its
\* tail
C16_Witness ==
    /\ Decided /\ moves >= 2 /\ move \in UnitDirections
    /\ agent_kind = "SnakeAIAgent" /\ ~dynamic_replanning /\ log = <<"tail-chase">>

\* C17: for max_depth >= 1 AlphaBetaAgent.get_next_move ends without an
\* error and returns a unit direction, or the game's direction when no
\* neighbour of the head is safe.
C17_AlphaBetaReturnsDirection ==
    (agent_kind = "AlphaBetaAgent" /\ alphabeta_depth >= 1) =>
        /\ pc # "error"
        /\ Decided => IF HeadBoxedIn THEN move = direction ELSE move \in UnitDirections

---------------------------------------------------------------------------
(* Properties of the game engine *)

SpawnCalled == "spawn" \in called

FreeCellExists == Cells(grid_rows, grid_cols) \ Range(snake) # {}

\* C18: whenever the grid has a cell that the snake does not occupy,
\* _spawn_food returns a cell that is not on the snake.
C18_FoodOffSnake ==
    (SpawnCalled /\ FreeCellExists) => food \notin Range(snake)

Opposite == <<-direction[1], -direction[2]>>

\* a step in which change_direction is called with d: by the tick, with the
\* agent's move, or by a key between two ticks
DirectionCall(d) ==
    \/ pc = "steer" /\ pc' = "update" /\ move = d
    \/ /\ agent_kind = "none" /\ pc = "decide" /\ pc' = "decide" /\ move' = d
       /\ moves' = moves /\ game_over' = game_over

UpdateStep == pc = "update" /\ pc' = "decide"

\* C19: change_direction called with the opposite of the current direction
\* or with (0,0) leaves direction and next_direction as they were, and the
\* direction an update applies is never the reverse of the direction the
\* update before it applied.
C19_NoReversal ==
    /\ [][(DirectionCall(Opposite) \/ DirectionCall(<<0, 0>>))
              => UNCHANGED <<direction, next_direction>>]_vars
    /\ [][UpdateStep => direction' # Opposite]_vars

\* in human mode, after a turn, the key opposite to the direction of travel
\* was pressed and next_direction did not take it
C19_Witness ==
    /\ agent_kind = "none" /\ pc = "decide" /\ moves >= 2
    /\ direction # <<1, 0>>
    /\ move = Opposite /\ next_direction # move

\* the R key: the game is new again
ResetStep ==
    /\ pc = "decide" /\ pc' = "decide"
    /\ moves > 0 \/ game_over
    /\ moves' = 0 /\ score' = 0 /\ ~game_over'

\* C20: after any sequence of updates since reset survival_mode is true
\* exactly when score >= survival_mode_threshold, and once true it stays
\* true until reset.
C20_SurvivalAtThreshold ==
    /\ [](pc # "library" => (survival_mode <=> score >= survival_mode_threshold))
    /\ [][(survival_mode /\ ~ResetStep) => survival_mode']_vars

\* the second food has taken the score to a threshold of 2, and the game
\* has moved on in survival mode
C20_Witness ==
    /\ survival_mode_threshold = 2 /\ score = 2 /\ survival_mode
    /\ pc = "decide" /\ moves >= 3

\* the cell update computes for the new head
NewHead == <<snake[1][1] + next_direction[1], snake[1][2] + next_direction[2]>>

\* an update that moves the head onto the food
FoodEaten == UpdateStep /\ ~game_over /\ ~game_over' /\ NewHead = food

\* C21: an update that moves the head onto the food makes the snake one
\* cell longer and the score one higher, any other update leaves both as
\* they were, and len(snake) = initial_snake_length + score holds after any
\* sequence of updates from reset.
C21_LengthTracksScore ==
    /\ [](pc # "library" => Len(snake) = initial_snake_length + score)
    /\ [][FoodEaten => Len(snake') = Len(snake) + 1 /\ score' = score + 1]_vars
    /\ [][(UpdateStep /\ ~FoodEaten) => Len(snake') = Len(snake) /\ score' = score]_vars

\* the snake has eaten once, its head is on the cell where the food was,
\* and a new food lies elsewhere
C21_Witness ==
    /\ pc = "decide" /\ update_result = "True"
    /\ score = 1 /\ Len(snake) = initial_snake_length + 1
    /\ moves = 1 /\ food # snake[1]

\* the new head is outside the grid or on a cell of the body, tail included
Collision == NewHead \notin Cells(grid_rows, grid_cols) \/ NewHead \in Range(snake)

\* C22: update sets game_over and returns False exactly when the new head is
\* outside the grid or on a cell of the body, the tail included; then, and
\* on every later update until reset, snake, food, score and moves stay as
\* they were.
C22_CollisionEndsGame ==
    /\ [][(UpdateStep /\ ~game_over) =>
              /\ game_over' <=> Collision
              /\ update_result' = (IF Collision THEN "False" ELSE "True")]_vars
    /\ [][(UpdateStep /\ game_over') =>
              /\ UNCHANGED <<snake, food, score, moves>>
              /\ update_result' = "False"]_vars

\* the game ended on a step into the cell of the tail
C22_Witness ==
    /\ game_over /\ pc = "decide" /\ update_result = "False"
    /\ <<snake[1][1] + direction[1], snake[1][2] + direction[2]>> = snake[Len(snake)]
    /\ moves >= 2

---------------------------------------------------------------------------
(* Properties of the cached plan *)

\* a step in which SnakeAIAgent.get_next_move runs in normal mode
NormalDecision ==
    /\ pc = "decide" /\ pc' = "steer"
    /\ agent_kind = "SnakeAIAgent" /\ ~survival_mode

\* the messages of _plan_path bear witness that it ran
Replanned == log # <<>> /\ log[1] \in {"found path", "no path"}

\* C23: in normal mode with dynamic replanning disabled, whenever the cached
\* plan has no next cell left (it was never found, or it has been followed
\* up to the food), get_next_move replans before it chooses its move.
C23_ReplansWhenPlanUsedUp ==
    [][(NormalDecision /\ ~dynamic_replanning /\ Len(current_path) <= 1)
          => Replanned']_vars


\* the cached plan has a next cell and the game says it is not safe
PlanNextUnsafe ==
    /\ Len(current_path) > 1
    /\ ~is_position_safe(current_path[2])

\* C24: in normal mode with replanning disabled, a get_next_move that finds
\* the next cell of its cached plan unsafe does not consume the cell and
\* abandons the plan: it leaves the agent without a cached plan, which is
\* what makes the next call replan.
C24_UnsafePlanAbandoned ==
    [][(NormalDecision /\ ~dynamic_replanning /\ PlanNextUnsafe)
          => current_path' = <<>>]_vars


---------------------------------------------------------------------------
(* Properties of the food gate of survival mode *)

\* (1) the food can be reached from the head past the body behind the head
FoodPathExists ==
    food \in ReachFrom({snake[1]}, Range(Rest(snake)), grid_rows, grid_cols)

\* (2) the tail of the body grown at the food, [food] + body, can be reached
\* from the food past the interior of that body
TailPathAfterEating ==
    snake[Len(snake)] \in ReachFrom({food}, Range(Front(snake)), grid_rows, grid_cols)

\* the move of the tail-chase fallback chain of survival mode
FallbackMove == _hamiltonian_fallback(AgentFields).move

\* C25: in survival mode get_next_move follows the food plan only if (1) a
\* path leads from the head to the food with body[1:] as obstacles and (2) a
\* path leads from the food to the current tail in the body grown at the
\* food, its interior as obstacles; when either fails the move returned is
\* the one of the tail-chase fallback chain.
C25_FoodGate ==
    SurvivalDecided =>
        /\ PlanFollowed => (FoodPathExists /\ TailPathAfterEating)
        /\ ~(FoodPathExists /\ TailPathAfterEating) =>
              /\ ~PlanFollowed
              /\ move = FallbackMove

\* the food could be reached but eating it would have cut the head off from
\* the tail, and the tail chase chose the move
C25_Witness ==
    /\ SurvivalDecided
    /\ FoodPathExists /\ ~TailPathAfterEating
    /\ log = <<"hamiltonian">>


---------------------------------------------------------------------------
(* Properties of the any-safe-move tier *)

SafeMoveCalled == "find_safe_move" \in called

\* the number of cells a flood fill from c covers when the whole snake is
\* in the way
FloodCount(c) == Cardinality(ReachFrom({c}, Range(snake), grid_rows, grid_cols))

\* the place of the step from the head to c in the order up, down, left, right
StepRank(c) ==
    LET d == <<c[1] - snake[1][1], c[2] - snake[1][2]>>
    IN  CHOOSE i \in 1..4 : << <<0, -1>>, <<0, 1>>, <<-1, 0>>, <<1, 0>> >>[i] = d

\* C26: when the head has a safe neighbour, the move of the any-safe-move
\* tier leads to a safe neighbour whose unbounded flood-fill count no other
\* safe neighbour exceeds, and among those of equal count to the first in
\* the order up, down, left, right.
C26_SafeMoveMaximisesSpace ==
    (SafeMoveCalled /\ ~HeadBoxedIn) =>
        LET safe == Range(get_safe_neighbors(snake[1]))
        IN  /\ NextCell \in safe
            /\ \A n \in safe : FloodCount(n) <= FloodCount(NextCell)
            /\ \A n \in safe \ {NextCell} :
                  FloodCount(n) = FloodCount(NextCell) => StepRank(NextCell) < StepRank(n)

\* the tier passed over a neighbour that comes earlier in the order for one
\* with more space behind it
C26_Witness ==
    /\ SafeMoveCalled /\ ~HeadBoxedIn
    /\ \E n \in Range(get_safe_neighbors(snake[1])) :
          /\ StepRank(n) < StepRank(NextCell)
          /\ FloodCount(n) < FloodCount(NextCell)

\* two neighbours had the most space and the tier took the earlier one
C26_TieTaken ==
    /\ SafeMoveCalled /\ ~HeadBoxedIn
    /\ \E n \in Range(get_safe_neighbors(snake[1])) \ {NextCell} :
          FloodCount(n) = FloodCount(NextCell)


---------------------------------------------------------------------------
(* Properties of the work the searches do *)

\* C27: bfs_search and astar_search return, and each has expanded every
\* cell at most once: nodes_expanded is at most the number of cells of the
\* grid and at most the size of visited, and for A* it equals the size of
\* visited.
C27_EachCellExpandedOnce ==
    /\ BfsCalled =>
          /\ bfs_result.nodes_expanded <= Cardinality(bfs_result.visited)
          /\ bfs_result.nodes_expanded <= grid_rows * grid_cols
          /\ bfs_result.visited \subseteq Cells(grid_rows, grid_cols)
    /\ AstarCalled =>
          /\ astar_result.nodes_expanded = Cardinality(astar_result.visited)
          /\ astar_result.nodes_expanded <= grid_rows * grid_cols
          /\ astar_result.visited \subseteq Cells(grid_rows, grid_cols)

\* both searches have returned from a grid with a cycle, BFS having
\* expanded every cell of it and A* more than one
C27_Witness ==
    /\ BothCalled
    /\ grid_rows >= 2 /\ grid_cols >= 2
    /\ bfs_result.nodes_expanded = grid_rows * grid_cols
    /\ astar_result.nodes_expanded > 1


---------------------------------------------------------------------------
(* Properties of the simulation against the game *)

\* C28: when simulate_snake_movement accepts a path from the head of a body
\* without repeated cells, replaying the steps of the path through update
\* on that body, no food on the path, never ends the game: the game finds
\* no self-collision where the simulation found none, a step into the cell
\* of the tail included.
C28_AcceptedPathReplays ==
    ("simulate" \in called /\ sim_result) => ~game_over


---------------------------------------------------------------------------
(* Properties of the plan against the simulation *)

\* C29: for a body without repeated cells and a food off the body, the path
\* _plan_path gets from bfs_search or astar_search with body[1:] as
\* obstacles is accepted by simulate_snake_movement, and get_next_move never
\* takes the self-collision branch that clears current_path.
C29_PlanPassesSimulation ==
    /\ (pc = "decide" /\ search_food.found) =>
           simulate_snake_movement(snake, search_food.path)
    /\ Decided => "self-collision" \notin Range(log)

\* a plan of at least three steps was found for a snake that has grown, and
\* its first step was taken
C29_Witness ==
    /\ Decided /\ log = <<"found path">>
    /\ Len(snake) > initial_snake_length
    /\ Len(current_path) >= 3
    /\ search_food.found


---------------------------------------------------------------------------
(* Properties of the agent's move against the direction of travel *)

\* a step in which the tick hands the move of a SnakeAIAgent to
\* change_direction, the body of at least three cells
AgentMoveHandedOver ==
    /\ pc = "steer" /\ pc' = "update"
    /\ agent_kind = "SnakeAIAgent"
    /\ Len(snake) >= 3

\* C30: with a body of at least 3 cells the direction get_next_move returns
\* is never the exact opposite of the game's current direction, so
\* change_direction accepts it: next_direction, which the next update
\* applies, is the move the agent decided.
C30_AgentNeverReverses ==
    /\ [](((Decided /\ agent_kind = "SnakeAIAgent" /\ Len(snake) >= 3)) => move # Opposite)
    /\ [][AgentMoveHandedOver => next_direction' = move]_vars

\* a move of the fallback chain that turns the snake was handed over and
\* is the direction the next update will apply
C30_Witness ==
    /\ pc = "update" /\ agent_kind = "SnakeAIAgent" /\ Len(snake) >= 3
    /\ log # <<>> /\ log[Len(log)] \in {"tail-chase", "hamiltonian", "safe move"}
    /\ next_direction = move /\ move # direction

====
